---- MODULE Spec2Model ----
(***************************************************************************)
(* Model of local-indexing.py: the blob-to-search-index pipeline.          *)
(*                                                                         *)
(*   chunk_text        the token-window chunker, one action per loop turn  *)
(*   sanitize_id       the identifier sanitizer (re.sub over characters)   *)
(*   upload_documents  the batched uploader, one action per batch          *)
(*   main              the orchestrator, one action per stage              *)
(*                                                                         *)
(* Strings are sequences of one-character strings, so that split, join,    *)
(* replace, lower, endswith and re.sub are computed character by           *)
(* character.                                                              *)
(***************************************************************************)
EXTENDS Integers, Sequences, FiniteSets, TLC

VARIABLES
    \* ---- chunk_text (lines 139-146)
    c_pc,          \* "off" (not called) | "idle" | "loop" | "done"
    text,          \* the argument text
    chunk_size,    \* the argument chunk_size
    overlap,       \* the argument overlap
    tokens,        \* tokens = text.split()
    chunks,        \* the list of chunk strings built so far
    start,         \* the loop variable start
    ranges,        \* history: <<start, end>> of every chunk appended
    \* ---- upload_documents (lines 185-207)
    u_pc,          \* "idle" | "called" | "loop" | "returned" | "raised"
    docs,          \* the argument docs
    batch_size,    \* the argument batch_size
    sdk_search,    \* whether azure.search.documents can be imported
    u_i,           \* the loop variable i
    attempts,      \* history: every call of search_client.upload_documents
    accepted,      \* the documents the index accepted, in order
    u_log,         \* what was printed / logged, in order
    \* ---- main (lines 214-277)
    m_pc,          \* "off" | "start" | "check_env" | "download" | "walk" |
                   \* "ensure_index" | "upload" | "uploading" | "except" | "done"
    env,           \* the process environment: name -> "unset" | "empty" | "set"
    visited,       \* relative paths os.walk has already yielded
    chunked_docs,  \* the list chunked_docs
    origins,       \* history: <<rel_path, i>> of every document appended
    m_steps,       \* history: the I/O stages main has executed
    m_exc,         \* the stage whose exception reached main's except clause
    m_result       \* what main returned ("none" while running)

chunkVars  == <<c_pc, text, chunk_size, overlap, tokens, chunks, start, ranges>>
uploadVars == <<u_pc, docs, batch_size, sdk_search, u_i, attempts, accepted, u_log>>
mainVars   == <<m_pc, env, visited, chunked_docs, origins, m_steps, m_exc, m_result>>
vars       == <<c_pc, text, chunk_size, overlap, tokens, chunks, start, ranges,
                u_pc, docs, batch_size, sdk_search, u_i, attempts, accepted, u_log,
                m_pc, env, visited, chunked_docs, origins, m_steps, m_exc, m_result>>

-----------------------------------------------------------------------------
\* Bounds of the model.

\* Longest text handed to chunk_text, in tokens.
MaxTokens == 10
\* Largest chunk_size tried.
MaxChunkSize == 4
\* Largest overlap tried (reaches and passes MaxChunkSize on purpose).
MaxOverlap == 5
\* Loop turns followed when the start offset does not advance.
MaxIter == 3
\* Longest document sequence handed to upload_documents directly.
MaxDocs == 6
\* Largest batch_size tried.
MaxBatch == 3
\* Files os.walk yields in one run of main.
MaxFiles == 3
\* upload_documents' default batch_size (500 at line 185), scaled down so that
\* a run of main submits several batches.
DefaultBatchSize == 2

-----------------------------------------------------------------------------
\* Arithmetic and characters.

Min(a, b) == IF a < b THEN a ELSE b

Max(a, b) == IF a > b THEN a ELSE b

\* ceil(a / b) for b > 0 (\div rounds towards minus infinity).
CeilDiv(a, b) == -((-a) \div b)

UpperLetters == <<"A","B","C","D","E","F","G","H","I","J","K","L","M",
                  "N","O","P","Q","R","S","T","U","V","W","X","Y","Z">>

LowerLetters == <<"a","b","c","d","e","f","g","h","i","j","k","l","m",
                  "n","o","p","q","r","s","t","u","v","w","x","y","z">>

Digits == <<"0","1","2","3","4","5","6","7","8","9">>

Range(f) == { f[k] : k \in DOMAIN f }

\* Python's str.split() / str.strip() whitespace, as far as the inputs use it.
Whitespace == {" ", "\t", "\n"}

-----------------------------------------------------------------------------
\* chunk_text

RECURSIVE SplitAcc(_, _, _, _)
SplitAcc(s, k, cur, acc) ==
    IF k > Len(s)
    THEN IF cur = <<>> THEN acc ELSE Append(acc, cur)
    ELSE IF s[k] \in Whitespace
         THEN SplitAcc(s, k + 1, <<>>, IF cur = <<>> THEN acc ELSE Append(acc, cur))
         ELSE SplitAcc(s, k + 1, Append(cur, s[k]), acc)

\* text.split(): the maximal runs of non-whitespace characters, in order.
Split(s) == SplitAcc(s, 1, <<>>, <<>>)

RECURSIVE Join(_, _)
\* sep.join(toks)
Join(sep, toks) ==
    IF toks = <<>> THEN <<>>
    ELSE IF Len(toks) = 1 THEN toks[1]
    ELSE toks[1] \o sep \o Join(sep, Tail(toks))

\* A Python slice bound: negative counts from the end, then clamped to 0..n.
SliceBound(b, n) == IF b < 0 THEN Max(n + b, 0) ELSE Min(b, n)

\* seq[lo:hi] with Python's slice semantics (0-based, hi exclusive).
PySlice(seq, lo, hi) ==
    LET l == SliceBound(lo, Len(seq))
        h == SliceBound(hi, Len(seq))
    IN  IF l >= h THEN <<>> ELSE SubSeq(seq, l + 1, h)

\* chunk_text without the min: the last window runs past the token count.
ChunkEndUnclamped(st, size, n) == st + size

\* Line 143: end = min(start + chunk_size, len(tokens))
ChunkEnd(st, size, n) == Min(st + size, n)

\* chunk_text advancing by the whole window: the overlap is dropped.
ChunkAdvanceNoOverlap(st, size, ov) == st + size

\* Line 145: start += chunk_size - overlap
ChunkAdvance(st, size, ov) == st + (size - ov)

\* Line 144: " ".join(tokens[start:end])
ChunkString(toks, st, en) == Join(<<" ">>, PySlice(toks, st, en))

\* The token Letter(i) of the generated texts.
Letter(i) == <<LowerLetters[((i - 1) % 26) + 1]>>

RECURSIVE TextOf(_, _, _)
\* A text of n one-letter tokens "a", "b", ... separated by sep, tokens k..n.
TextOf(k, n, sep) ==
    IF k > n THEN <<>>
    ELSE IF k = n THEN Letter(k)
    ELSE Letter(k) \o sep \o TextOf(k + 1, n, sep)

\* The texts chunk_text is called with: single spaces, whitespace runs, and
\* leading / trailing whitespace (whitespace-only when n = 0).
Texts ==
    { TextOf(1, n, <<" ">>) : n \in 0..MaxTokens }
    \cup { TextOf(1, n, <<" ", "\n">>) : n \in 0..MaxTokens }
    \cup { <<"\t">> \o TextOf(1, n, <<" ">>) \o <<" ">> : n \in 0..MaxTokens }

\* chunk_text(text, chunk_size, overlap) is entered: lines 140-141.
ChunkCall ==
    /\ c_pc = "idle"
    /\ c_pc' = "loop"
    /\ tokens' = Split(text)
    /\ chunks' = <<>>
    /\ start' = 0
    /\ ranges' = <<>>
    /\ UNCHANGED <<text, chunk_size, overlap>>
    /\ UNCHANGED <<uploadVars, mainVars>>

\* One turn of the while loop: lines 142-145. A loop whose start offset does
\* not advance is followed for MaxIter turns.
ChunkLoop ==
    /\ c_pc = "loop"
    /\ start < Len(tokens)
    /\ (overlap >= chunk_size) => Len(chunks) < MaxIter
    /\ LET end == ChunkEnd(start, chunk_size, Len(tokens))
       IN  /\ chunks' = Append(chunks, ChunkString(tokens, start, end))
           /\ ranges' = Append(ranges, <<start, end>>)
    /\ start' = ChunkAdvance(start, chunk_size, overlap)
    /\ UNCHANGED <<c_pc, text, chunk_size, overlap, tokens>>
    /\ UNCHANGED <<uploadVars, mainVars>>

\* The loop condition fails and chunk_text returns chunks: lines 142, 146.
ChunkReturn ==
    /\ c_pc = "loop"
    /\ ~(start < Len(tokens))
    /\ c_pc' = "done"
    /\ UNCHANGED <<text, chunk_size, overlap, tokens, chunks, start, ranges>>
    /\ UNCHANGED <<uploadVars, mainVars>>

ChunkIdle ==
    /\ c_pc = "off"
    /\ text = <<>>
    /\ chunk_size = 0
    /\ overlap = 0
    /\ tokens = <<>>
    /\ chunks = <<>>
    /\ start = 0
    /\ ranges = <<>>

-----------------------------------------------------------------------------
\* sanitize_id and the identifier built in main

\* The character class [A-Za-z0-9_\-=] of line 211.
IdClass == Range(UpperLetters) \cup Range(LowerLetters) \cup Range(Digits)
           \cup {"_", "-", "="}

\* re.sub(pattern, "_", s) for a pattern that is one character class negated:
\* each non-matching character stays, each matching one becomes "_".
SubNotIn(class, s) == [k \in 1..Len(s) |-> IF s[k] \in class THEN s[k] ELSE "_"]

\* sanitize_id with '.' added to the allowed class.
sanitize_id_dot(s) == SubNotIn(IdClass \cup {"."}, s)

\* Line 211: re.sub(r'[^A-Za-z0-9_\-=]', "_", s)
sanitize_id(s) == SubNotIn(IdClass, s)

\* s.replace(old, new) for one-character old and new.
Replace(s, old, new) == [k \in 1..Len(s) |-> IF s[k] = old THEN new ELSE s[k]]

RECURSIVE Str(_)
\* str(i) for i >= 0: the decimal digits of i.
Str(i) == IF i < 10 THEN <<Digits[i + 1]>> ELSE Str(i \div 10) \o <<Digits[(i % 10) + 1]>>

\* os.sep on the platform the pipeline runs on.
OsSep == "/"

\* Line 254: f"{rel_path.replace(os.sep, '_')}_chunk_{i}"
RawId(rel_path, i) ==
    Replace(rel_path, OsSep, "_") \o <<"_","c","h","u","n","k","_">> \o Str(i)

\* Lines 254-260: the Document built for chunk i of the file at rel_path.
MakeDoc(rel_path, i, chunk) == [id |-> sanitize_id(RawId(rel_path, i)), text |-> chunk]

-----------------------------------------------------------------------------
\* extract_text

\* s.lower() on ASCII letters.
Lower(s) ==
    [k \in 1..Len(s) |->
        IF \E n \in 1..26 : UpperLetters[n] = s[k]
        THEN LowerLetters[CHOOSE n \in 1..26 : UpperLetters[n] = s[k]]
        ELSE s[k]]

\* s.endswith(suffix)
EndsWith(s, suffix) ==
    /\ Len(s) >= Len(suffix)
    /\ SubSeq(s, Len(s) - Len(suffix) + 1, Len(s)) = suffix

\* The extensions extract_text dispatches on: lines 125-134.
Extensions == { <<".","p","d","f">>, <<".","d","o","c","x">>, <<".","p","p","t","x">>,
                <<".","x","l","s","x">>, <<".","c","s","v">> }

\* Token counts of the text a format handler may return: 0 when the parsing
\* library is missing, the file is corrupt or it holds no text.
TokenCounts == {0, 1, 801, 1401}

\* extract_text(path), as the number of tokens of the text it returns: a
\* handler's text for a recognized extension, "" otherwise (line 135).
ExtractedTokenCounts(path) ==
    IF \E e \in Extensions : EndsWith(Lower(path), e) THEN TokenCounts ELSE {0}

\* chunk_text's defaults: line 139.
DefaultChunkSize == 800

DefaultOverlap == 100

RECURSIVE ChunkRanges(_, _, _, _)
\* The loop of chunk_text run to its end (overlap < chunk_size): the
\* <<start, end>> token range of every chunk, in order.
ChunkRanges(st, n, size, ov) ==
    IF st < n
    THEN <<<<st, ChunkEnd(st, size, n)>>>> \o ChunkRanges(ChunkAdvance(st, size, ov), n, size, ov)
    ELSE <<>>

\* The relative paths of the files under the downloaded folder.
Paths == {
    <<"R","e","p","o","r","t","s","/","Q","1"," ","(","f","i","n","a","l",")",".","p","d","f">>,
    <<"a"," ","b",".","p","d","f">>,
    <<"a","_","b",".","p","d","f">>,
    <<"a","/","b",".","p","d","f">>,
    <<"T",".","C","S","V">>,
    <<"n","o","t","e","s",".","t","x","t">> }

-----------------------------------------------------------------------------
\* upload_documents

\* upload_documents slicing one document short.
BatchShort(ds, i, size) == PySlice(ds, i, i + size - 1)

\* Line 202: batch = docs[i:i + batch_size]
Batch(ds, i, size) == PySlice(ds, i, i + size)

\* Lines 205, 207: the batch's ordinal number, i // batch_size + 1
Ordinal(i, size) == (i \div size) + 1

\* upload_documents without the try/except around the submission.
AfterBatchUncaught(ok) == IF ok THEN "loop" ELSE "raised"

\* Lines 203-207: where control goes after a batch was submitted; the except
\* clause logs the failure and the for loop goes on.
AfterBatch(ok) == "loop"

\* Lines 186-199: the empty check, the import, the client construction.
UploadEnter ==
    /\ u_pc = "called"
    /\ \/ /\ docs = <<>>
          /\ u_log' = Append(u_log, <<"No documents to upload.">>)
          /\ u_pc' = "returned"
       \/ /\ docs # <<>>
          /\ ~sdk_search
          /\ u_log' = Append(u_log, <<"Azure Search SDK not installed">>)
          /\ u_pc' = "returned"
       \/ /\ docs # <<>>
          /\ sdk_search
          /\ u_log' = Append(u_log, <<"inside upload_documents">>)
          /\ \E constructed \in BOOLEAN :
                u_pc' = IF constructed THEN "loop" ELSE "raised"
    /\ u_i' = 0
    /\ UNCHANGED <<docs, batch_size, sdk_search, attempts, accepted>>
    /\ UNCHANGED <<chunkVars, mainVars>>

\* One turn of the for loop: lines 201-207. The submission succeeds or raises.
UploadBatch ==
    /\ u_pc = "loop"
    /\ u_i < Len(docs)
    /\ \E ok \in BOOLEAN :
        LET batch == Batch(docs, u_i, batch_size)
            k     == Ordinal(u_i, batch_size)
        IN  /\ attempts' = Append(attempts, [ordinal |-> k, batch |-> batch, ok |-> ok])
            /\ accepted' = IF ok THEN accepted \o batch ELSE accepted
            /\ u_log' = Append(u_log, IF ok THEN <<"Uploaded batch", k, Len(batch)>>
                                            ELSE <<"Failed to upload batch", k>>)
            /\ u_pc' = AfterBatch(ok)
    /\ u_i' = u_i + batch_size
    /\ UNCHANGED <<docs, batch_size, sdk_search>>
    /\ UNCHANGED <<chunkVars, mainVars>>

\* range(0, len(docs), batch_size) is exhausted and upload_documents returns.
UploadReturn ==
    /\ u_pc = "loop"
    /\ ~(u_i < Len(docs))
    /\ u_pc' = "returned"
    /\ UNCHANGED <<docs, batch_size, sdk_search, u_i, attempts, accepted, u_log>>
    /\ UNCHANGED <<chunkVars, mainVars>>

UploadIdle ==
    /\ u_pc = "idle"
    /\ docs = <<>>
    /\ batch_size = 0
    /\ u_i = 0
    /\ attempts = <<>>
    /\ accepted = <<>>
    /\ u_log = <<>>

-----------------------------------------------------------------------------
\* main

\* The five settings main reads: lines 219-226.
EnvNames == <<"BLOB_CONNECTION_STRING", "BLOB_CONTAINER_NAME", "SEARCH_ENDPOINT",
              "SEARCH_KEY", "SEARCH_INDEX">>

\* os.getenv(v): None for an unset variable, else its value ("" is falsy).
EnvValues == {"unset", "empty", "set"}

\* Lines 225-226: [v for v in [...] if not os.getenv(v)], in list order.
missing_vars(e) == SelectSeq(EnvNames, LAMBDA v : e[v] # "set")

Outcome(kind, count, missing, stage) ==
    [kind |-> kind, count |-> count, missing |-> missing, stage |-> stage]

NoResult == Outcome("none", 0, <<>>, "")

\* Line 229: f"Missing required environment variables: {missing_vars}"
ConfigError(missing) == Outcome("config_error", 0, missing, "")

\* Line 235: "Blob download failed or skipped."
DownloadSkipped == Outcome("download_skipped", 0, <<>>, "")

\* main reporting the documents the index accepted.
SuccessAccepted(ds) == Outcome("success", Len(accepted), <<>>, "")

\* Line 272: json.dumps({"status": "success", "docs_uploaded": len(chunked_docs)})
Success(ds) == Outcome("success", Len(ds), <<>>, "")

\* Line 277: f"Internal Server Error: {e}"
InternalError(stage) == Outcome("internal_error", 0, <<>>, stage)

\* main with the environment reads placed before the try block.
OnExceptionAfterEnv(stage) == IF stage = "read_env" THEN "propagated" ELSE "except"

\* Lines 217, 275: every stage runs inside the try block, so an exception a
\* stage raises goes to the except clause.
OnException(stage) == "except"

\* Lines 219-224: the five getenv calls and the print that concatenates their
\* results; str + None raises TypeError.
MainReadEnv ==
    /\ m_pc = "start"
    /\ IF \E v \in Range(EnvNames) : env[v] = "unset"
       THEN /\ m_pc' = OnException("read_env")
            /\ m_exc' = "read_env"
       ELSE /\ m_pc' = "check_env"
            /\ m_exc' = m_exc
    /\ UNCHANGED <<env, visited, chunked_docs, origins, m_steps, m_result, uploadVars>>
    /\ UNCHANGED chunkVars

\* Lines 225-229: the missing-settings check.
MainCheckEnv ==
    /\ m_pc = "check_env"
    /\ IF missing_vars(env) # <<>>
       THEN /\ m_result' = ConfigError(missing_vars(env))
            /\ m_pc' = "done"
       ELSE /\ m_result' = m_result
            /\ m_pc' = "download"
    /\ UNCHANGED <<env, visited, chunked_docs, origins, m_steps, m_exc, uploadVars>>
    /\ UNCHANGED chunkVars

\* Lines 233-235: download_blobs returns the folder, returns None (the blob
\* SDK cannot be imported), or raises (connection, listing).
MainDownload ==
    /\ m_pc = "download"
    /\ m_steps' = Append(m_steps, "download")
    /\ \E outcome \in {"folder", "none", "raise"} :
        /\ m_pc' = CASE outcome = "folder" -> "walk"
                     [] outcome = "none"   -> "done"
                     [] outcome = "raise"  -> OnException("download")
        /\ m_result' = IF outcome = "none" THEN DownloadSkipped ELSE m_result
        /\ m_exc' = IF outcome = "raise" THEN "download" ELSE m_exc
    /\ UNCHANGED <<env, visited, chunked_docs, origins, uploadVars>>
    /\ UNCHANGED chunkVars

\* Lines 244-261: one file of the walk: extract, skip if blank, else chunk
\* with the defaults and append one Document per chunk. A chunk's text is
\* kept as the file it comes from and its <<start, end>> token range.
MainWalkFile ==
    /\ m_pc = "walk"
    /\ Cardinality(visited) < MaxFiles
    /\ \E rel_path \in Paths \ visited :
       \E n \in ExtractedTokenCounts(rel_path) :
        LET cs == ChunkRanges(0, n, DefaultChunkSize, DefaultOverlap)
        IN  /\ visited' = visited \cup {rel_path}
            /\ chunked_docs' = chunked_docs \o
                   [i \in 1..Len(cs) |-> MakeDoc(rel_path, i - 1, <<rel_path, cs[i]>>)]
            /\ origins' = origins \o [i \in 1..Len(cs) |-> <<rel_path, i - 1>>]
    /\ m_steps' = Append(m_steps, "extract")
    /\ UNCHANGED <<m_pc, env, m_exc, m_result, uploadVars>>
    /\ UNCHANGED chunkVars

\* os.walk is exhausted: lines 243, 263-264.
MainWalkDone ==
    /\ m_pc = "walk"
    /\ m_pc' = "ensure_index"
    /\ UNCHANGED <<env, visited, chunked_docs, origins, m_steps, m_exc, m_result, uploadVars>>
    /\ UNCHANGED chunkVars

\* Line 269: ensure_index returns (index present, created, or SDK missing) or
\* raises (listing or creating the index fails).
MainEnsureIndex ==
    /\ m_pc = "ensure_index"
    /\ m_steps' = Append(m_steps, "ensure_index")
    /\ \E raises \in {r \in BOOLEAN : r => sdk_search} :
        /\ m_pc' = IF raises THEN OnException("ensure_index") ELSE "upload"
        /\ m_exc' = IF raises THEN "ensure_index" ELSE m_exc
    /\ UNCHANGED <<env, visited, chunked_docs, origins, m_result, uploadVars>>
    /\ UNCHANGED chunkVars

\* Line 270: upload_documents(..., chunked_docs) is called with the default
\* batch_size.
MainUploadCall ==
    /\ m_pc = "upload"
    /\ u_pc = "idle"
    /\ m_pc' = "uploading"
    /\ m_steps' = Append(m_steps, "upload")
    /\ u_pc' = "called"
    /\ docs' = chunked_docs
    /\ batch_size' = DefaultBatchSize
    /\ UNCHANGED <<env, visited, chunked_docs, origins, m_exc, m_result,
                   sdk_search, u_i, attempts, accepted, u_log>>
    /\ UNCHANGED chunkVars

\* Lines 270-272: upload_documents returned, main returns the summary; or it
\* raised.
MainUploadDone ==
    /\ m_pc = "uploading"
    /\ u_pc \in {"returned", "raised"}
    /\ IF u_pc = "returned"
       THEN /\ m_result' = Success(chunked_docs)
            /\ m_pc' = "done"
            /\ m_exc' = m_exc
       ELSE /\ m_result' = m_result
            /\ m_pc' = OnException("upload")
            /\ m_exc' = "upload"
    /\ UNCHANGED <<env, visited, chunked_docs, origins, m_steps, uploadVars>>
    /\ UNCHANGED chunkVars

\* Lines 275-277: the except clause returns the internal-error string.
MainExcept ==
    /\ m_pc = "except"
    /\ m_result' = InternalError(m_exc)
    /\ m_pc' = "done"
    /\ UNCHANGED <<env, visited, chunked_docs, origins, m_steps, m_exc, uploadVars>>
    /\ UNCHANGED chunkVars

MainIdle ==
    /\ m_pc = "off"
    /\ env = [v \in Range(EnvNames) |-> "set"]
    /\ visited = {}
    /\ chunked_docs = <<>>
    /\ origins = <<>>
    /\ m_steps = <<>>
    /\ m_exc = ""
    /\ m_result = NoResult

-----------------------------------------------------------------------------
\* Specifications.

\* One run of main, from the trigger to its return.
Init ==
    /\ ChunkIdle
    /\ UploadIdle
    /\ sdk_search \in BOOLEAN
    /\ m_pc = "start"
    /\ env \in [Range(EnvNames) -> EnvValues]
    /\ visited = {}
    /\ chunked_docs = <<>>
    /\ origins = <<>>
    /\ m_steps = <<>>
    /\ m_exc = ""
    /\ m_result = NoResult

Next ==
    \/ MainReadEnv
    \/ MainCheckEnv
    \/ MainDownload
    \/ MainWalkFile
    \/ MainWalkDone
    \/ MainEnsureIndex
    \/ MainUploadCall
    \/ MainUploadDone
    \/ MainExcept
    \/ UploadEnter
    \/ UploadBatch
    \/ UploadReturn

Spec == Init /\ [][Next]_vars

\* One call of chunk_text(text, chunk_size, overlap).
InitChunk ==
    /\ c_pc = "idle"
    /\ text \in Texts
    /\ chunk_size \in 1..MaxChunkSize
    /\ overlap \in 0..MaxOverlap
    /\ tokens = <<>>
    /\ chunks = <<>>
    /\ start = 0
    /\ ranges = <<>>
    /\ UploadIdle
    /\ sdk_search = TRUE
    /\ MainIdle

NextChunk == ChunkCall \/ ChunkLoop \/ ChunkReturn

SpecChunk == InitChunk /\ [][NextChunk]_vars

\* One call of upload_documents(endpoint, key, index, docs, batch_size).
InitUpload ==
    /\ ChunkIdle
    /\ u_pc = "called"
    /\ docs \in { [k \in 1..n |-> k] : n \in 0..MaxDocs }
    /\ batch_size \in 1..MaxBatch
    /\ sdk_search \in BOOLEAN
    /\ u_i = 0
    /\ attempts = <<>>
    /\ accepted = <<>>
    /\ u_log = <<>>
    /\ MainIdle

NextUpload == UploadEnter \/ UploadBatch \/ UploadReturn

SpecUpload == InitUpload /\ [][NextUpload]_vars

-----------------------------------------------------------------------------
\* Properties of chunk_text, checked under SpecChunk.

\* T: the number of whitespace-separated tokens of s, counted as the
\* positions where a token begins.
TokenCount(s) ==
    Cardinality({ k \in 1..Len(s) :
                    s[k] \notin Whitespace /\ (k = 1 \/ s[k - 1] \in Whitespace) })

\* "a b c d e f g h i j"
TenTokens == TextOf(1, 10, <<" ">>)

\* C3 as amended: with 0 <= overlap < chunk_size, chunk_text returns exactly
\* ceil(T / (chunk_size - overlap)) chunks when T > 0 and 0 chunks when
\* T = 0; ten tokens with chunk_size 4 and overlap 1 give the four chunks
\* starting at token offsets 0, 3, 6 and 9, the last one being "j".
C3_ChunkCount ==
    (c_pc = "done" /\ overlap < chunk_size) =>
        LET T == TokenCount(text)
        IN  /\ Len(chunks) = IF T = 0 THEN 0 ELSE CeilDiv(T, chunk_size - overlap)
            /\ (text = TenTokens /\ chunk_size = 4 /\ overlap = 1) =>
                 /\ [k \in 1..Len(ranges) |-> ranges[k][1]] = <<0, 3, 6, 9>>
                 /\ chunks = << <<"a"," ","b"," ","c"," ","d">>,
                                <<"d"," ","e"," ","f"," ","g">>,
                                <<"g"," ","h"," ","i"," ","j">>,
                                <<"j">> >>

\* C3 witness: chunk_text has returned for the ten-token example.
C3_Witness ==
    c_pc = "done" /\ text = TenTokens /\ chunk_size = 4 /\ overlap = 1

\* C3 as stated: with 0 <= overlap < chunk_size, chunk_text returns exactly
\* ceil((T - overlap) / (chunk_size - overlap)) chunks when T > 0 and 0
\* chunks when T = 0.
C3_OriginalChunkCount ==
    (c_pc = "done" /\ overlap < chunk_size) =>
        LET T == TokenCount(text)
        IN  Len(chunks) = IF T = 0 THEN 0
                          ELSE CeilDiv(T - overlap, chunk_size - overlap)

\* C4: with T > 0 tokens and 0 <= overlap < chunk_size, the k-th chunk is the
\* token range [k*(chunk_size-overlap), min(k*(chunk_size-overlap)+chunk_size, T)),
\* chunk starts strictly increase, and on return the ranges cover exactly
\* [0, T) with the final chunk ending at T.
C4_ChunkCoverage ==
    (c_pc \in {"loop", "done"} /\ overlap < chunk_size) =>
        LET T    == TokenCount(text)
            step == chunk_size - overlap
        IN  /\ Len(chunks) = Len(ranges)
            /\ \A k \in 1..Len(ranges) :
                 LET lo == (k - 1) * step
                     hi == Min((k - 1) * step + chunk_size, T)
                 IN  /\ ranges[k] = <<lo, hi>>
                     /\ chunks[k] = TextOf(lo + 1, hi, <<" ">>)
            /\ \A k \in 1..(Len(ranges) - 1) : ranges[k][1] < ranges[k + 1][1]
            /\ (c_pc = "done" /\ T > 0) =>
                 /\ UNION { ranges[k][1]..(ranges[k][2] - 1) : k \in 1..Len(ranges) }
                      = 0..(T - 1)
                 /\ ranges[Len(ranges)][2] = T

\* C4 witness: a returned call whose last window is cut short by the end of
\* the text, after several overlapping windows.
C4_Witness ==
    /\ c_pc = "done"
    /\ overlap = 2
    /\ chunk_size = 4
    /\ Len(ranges) >= 3
    /\ ranges[Len(ranges)][2] - ranges[Len(ranges)][1] < chunk_size

\* C5: chunk_text rejects overlap >= chunk_size before the loop, so every
\* turn of the loop runs with overlap < chunk_size and moves start forward.
C5_LoopAdvances ==
    [][(c_pc = "loop" /\ Len(chunks') > Len(chunks)) =>
          (overlap < chunk_size /\ start' > start)]_vars

-----------------------------------------------------------------------------
\* Properties of upload_documents, checked under SpecUpload.

RECURSIVE Concat(_)
\* The batches of a sequence of attempts, concatenated in order.
Concat(as) == IF as = <<>> THEN <<>> ELSE Head(as).batch \o Concat(Tail(as))

\* upload_documents has ended, by returning or by raising.
UploadEnded == u_pc \in {"returned", "raised"}

\* C1 as amended: once the search SDK has been imported and the client
\* constructed, for any non-empty document sequence and any subset of batches
\* whose submission raises, every batch (including all batches after a failing
\* one) is submitted exactly once, none is retried, and upload_documents
\* returns normally; no batch submission makes it raise. When the SDK cannot
\* be imported it returns normally without submitting any batch.
C1_BatchIsolation ==
    /\ \A k \in 1..Len(attempts) : attempts[k].ordinal = k
    /\ (u_pc = "loop") => Len(attempts) = CeilDiv(Min(u_i, Len(docs)), batch_size)
    /\ (u_pc = "raised") => attempts = <<>>
    /\ (u_pc = "returned" /\ docs # <<>> /\ sdk_search) =>
          Len(attempts) = CeilDiv(Len(docs), batch_size)
    /\ (u_pc = "returned" /\ ~sdk_search) => attempts = <<>>

\* C1 witness: upload_documents returned after its first and third batch
\* failed and the batches between and after them were still submitted.
C1_Witness ==
    /\ u_pc = "returned"
    /\ Len(attempts) >= 4
    /\ ~attempts[1].ok
    /\ attempts[2].ok
    /\ ~attempts[3].ok
    /\ attempts[4].ok

\* C1 as stated: for any non-empty document sequence, every batch is
\* submitted exactly once and upload_documents returns without raising.
C1_OriginalBatchIsolation ==
    (UploadEnded /\ docs # <<>>) =>
        /\ u_pc = "returned"
        /\ Len(attempts) = CeilDiv(Len(docs), batch_size)
        /\ \A k \in 1..Len(attempts) : attempts[k].ordinal = k

\* C2 as amended: once the search SDK has been imported and the client
\* constructed, for N >= 1 documents and batch_size B >= 1 upload_documents
\* attempts exactly ceil(N/B) batches, batch k (0-based) being
\* docs[k*B : min((k+1)*B, N)], so that the attempted batches concatenated in
\* submission order equal docs; for N = 0 no batch is submitted.
C2_PartitionComplete ==
    LET N == Len(docs)
        B == batch_size
    IN  /\ (u_pc = "returned" /\ N >= 1 /\ sdk_search) =>
              /\ Len(attempts) = CeilDiv(N, B)
              /\ \A k \in 1..Len(attempts) :
                    attempts[k].batch = SubSeq(docs, (k - 1) * B + 1, Min(k * B, N))
              /\ Concat(attempts) = docs
        /\ (UploadEnded /\ N = 0) => attempts = <<>>

\* C2 witness: a returned upload whose last batch is shorter than batch_size.
C2_Witness ==
    /\ u_pc = "returned"
    /\ Len(attempts) >= 2
    /\ Len(attempts[Len(attempts)].batch) < batch_size
    /\ Len(attempts[1].batch) = batch_size

\* C2 as stated: for N >= 1 and B >= 1 upload_documents attempts exactly
\* ceil(N/B) batches whose concatenation is docs.
C2_OriginalPartitionComplete ==
    (UploadEnded /\ Len(docs) >= 1) =>
        /\ Len(attempts) = CeilDiv(Len(docs), batch_size)
        /\ Concat(attempts) = docs

-----------------------------------------------------------------------------
\* Properties of main, checked under Spec.

\* The characters a search-index key may hold: A-Z, a-z, 0-9, '_', '-', '='.
IdCharset ==
    {"A","B","C","D","E","F","G","H","I","J","K","L","M","N","O","P","Q","R","S","T",
     "U","V","W","X","Y","Z","a","b","c","d","e","f","g","h","i","j","k","l","m","n",
     "o","p","q","r","s","t","u","v","w","x","y","z","0","1","2","3","4","5","6","7",
     "8","9","_","-","="}

\* "Reports/Q1 (final).pdf"
ReportsPath ==
    <<"R","e","p","o","r","t","s","/","Q","1"," ","(","f","i","n","a","l",")",".","p","d","f">>

\* "Reports_Q1__final__pdf_chunk_2"
ReportsId ==
    <<"R","e","p","o","r","t","s","_","Q","1","_","_","f","i","n","a","l","_","_",
      "p","d","f","_","c","h","u","n","k","_","2">>

\* C6: the Documents accumulated in chunked_docs, which come from pairwise
\* distinct (relative path, chunk index) pairs, have pairwise distinct ids.
C6_IdsUnique ==
    \A j, k \in 1..Len(chunked_docs) :
        (origins[j] # origins[k]) => chunked_docs[j].id # chunked_docs[k].id

\* C7: whenever one of the five required settings is missing, main returns
\* the configuration error naming the missing settings, and no download,
\* extraction, index provisioning or upload step has been executed.
C7_ConfigError ==
    LET unset == { v \in Range(EnvNames) : env[v] = "unset" }
    IN  (m_pc = "done" /\ unset # {}) =>
            /\ m_result.kind = "config_error"
            /\ unset \subseteq Range(m_result.missing)
            /\ m_steps = <<>>

\* C8: whenever main reaches the report stage it returns status "success"
\* with docs_uploaded equal to the number of Documents handed to
\* upload_documents, whatever batches failed; success is returned in no
\* other way.
C8_OptimisticCount ==
    /\ (m_pc = "done" /\ u_pc = "returned") =>
          /\ m_result.kind = "success"
          /\ m_result.count = Len(docs)
          /\ docs = chunked_docs
    /\ (m_result.kind = "success") => (m_pc = "done" /\ u_pc = "returned")

\* C8 witness: three batches of sizes 2, 2, 1, the second failing: the summary
\* reports 5 documents while the index accepted 3.
C8_Witness ==
    /\ m_result.kind = "success"
    /\ m_result.count = 5
    /\ Len(attempts) = 3
    /\ attempts[1].ok /\ ~attempts[2].ok /\ attempts[3].ok
    /\ Len(accepted) = 3

\* C9: main never raises to its caller; it has no result until it ends and
\* then has exactly one of the success summary and the error strings; an
\* exception that leaves a stage is turned into the internal-error string.
C9_SingleOutcome ==
    /\ m_pc # "propagated"
    /\ (m_pc # "done") => m_result = NoResult
    /\ (m_pc = "done") =>
          /\ m_result.kind \in {"success", "config_error", "download_skipped",
                                "internal_error"}
          /\ (m_exc # "") <=> (m_result.kind = "internal_error")
          /\ (m_exc # "") => m_result.stage = m_exc

\* C9 witness: the upload stage raised and main returned the internal error.
C9_Witness ==
    m_pc = "done" /\ m_exc = "upload" /\ m_result.kind = "internal_error"

\* C10: every character of a Document's id is in [A-Za-z0-9_\-=]; against the
\* raw id (flattened path, "_chunk_", chunk index) the characters of that set
\* are unchanged and every other one is replaced by one '_', the length being
\* preserved; "Reports/Q1 (final).pdf" with chunk index 2 gives
\* "Reports_Q1__final__pdf_chunk_2".
C10_SanitizationClosure ==
    \A k \in 1..Len(chunked_docs) :
        LET id  == chunked_docs[k].id
            raw == RawId(origins[k][1], origins[k][2])
        IN  /\ Len(id) = Len(raw)
            /\ \A j \in 1..Len(id) :
                 /\ id[j] \in IdCharset
                 /\ id[j] = IF raw[j] \in IdCharset THEN raw[j] ELSE "_"
            /\ (origins[k] = <<ReportsPath, 2>>) => id = ReportsId

\* C10 witness: the Document of chunk 2 of "Reports/Q1 (final).pdf" is in
\* chunked_docs.
C10_Witness ==
    \E k \in 1..Len(chunked_docs) :
        origins[k] = <<ReportsPath, 2>> /\ chunked_docs[k].id = ReportsId

====
